---------------------------- MODULE Spec2Model ----------------------------
(***************************************************************************)
(* A model of time_entry_rounding.py: the TimeEntry constructor with its   *)
(* truncation and quarter-hour rounding, the per-day aggregation, the      *)
(* latest-stop lookup, the admin-time filler and the update loop.          *)
(*                                                                         *)
(* A datetime is an integer: the seconds since 00:00:00 of day 0 of the    *)
(* model's calendar.  An ISO-8601 string is the record of its fields       *)
(* [day, hour, minute, second]; parse and isoformat convert between the    *)
(* two; every timestamp carries the same UTC offset, so that comparing and *)
(* subtracting datetimes is comparing and subtracting these integers.      *)
(* An optional value (a Python value that may be None) is the empty        *)
(* sequence or a one-element sequence.  An object's attributes are the     *)
(* DOMAIN of its record: hasattr(e, "stop") is "stop" \in DOMAIN e.        *)
(* The result of a call is [exc, val]: the exception it raised, or "none"  *)
(* and the value it returned.                                              *)
(***************************************************************************)
EXTENDS Integers, Sequences, FiniteSets, TLC

VARIABLES
    rIn,       \* normalization: the raw timestamp string
    rOut,      \* normalization: the normalized datetime, once computed
    rAgain,    \* normalization: _round_to_quarter_hour of rOut, once computed
    argStart,  \* constructor: the start argument (an optional string)
    argStop,   \* constructor: the stop argument (an optional string)
    built,     \* constructor: the TimeEntry constructed, once constructed
    entries,   \* the list of TimeEntry objects fetched so far
    call,      \* the last aggregation call on entries: [op, arg, result]
    apiKey,    \* whether TOGGL_API_KEY is set in the environment
    pc,        \* update_entries: where the call is
    idx,       \* update_entries: the index of the entry the loop is at
    sent,      \* update_entries: the PUT requests made, in order
    logged     \* update_entries: the indices whose failure was logged

vars == <<rIn, rOut, rAgain, argStart, argStop, built, entries, call,
          apiKey, pc, idx, sent, logged>>

roundVars == <<rIn, rOut, rAgain>>
ctorVars == <<argStart, argStop, built>>
aggVars == <<entries, call>>
updVars == <<apiKey, pc, idx, sent, logged>>

-----------------------------------------------------------------------------
(* Bounds *)

\* The calendar days of the raw timestamps are 0..MaxDay.
MaxDay == 1

\* The list of fetched entries holds at most MaxEntries entries.
MaxEntries == 2

-----------------------------------------------------------------------------
(* Python values *)

None == <<>>

Some(v) == <<v>>

Return(v) == [exc |-> "none", val |-> v]

Raise(e) == [exc |-> e, val |-> None]

-----------------------------------------------------------------------------
(* datetime *)

\* dateutil.parser.parse of an ISO-8601 timestamp string
Parse(s) == s.day * 86400 + s.hour * 3600 + s.minute * 60 + s.second

\* datetime.date(): the calendar day of a datetime
Date(dt) == dt \div 86400

Hour(dt) == (dt \div 3600) % 24

Minute(dt) == (dt \div 60) % 60

Second(dt) == dt % 60

\* datetime.isoformat()
IsoFormat(dt) ==
    [day |-> Date(dt), hour |-> Hour(dt), minute |-> Minute(dt),
     second |-> Second(dt)]

\* date.isoformat(): the day key
DateIsoFormat(d) == [day |-> d]

\* parse(date_string).date()
ParseDate(s) == Date(s.day * 86400)

\* timedelta(minutes=n), timedelta(seconds=n): a number of seconds
TimedeltaMinutes(n) == n * 60

\* timedelta.seconds: the seconds field of the normalized timedelta, which
\* keeps whole days in its days field
TimedeltaSeconds(delta) == delta % 86400

-----------------------------------------------------------------------------
(* TimeEntry *)

\* TimeEntry._truncate_seconds
TruncateSeconds(dt) == dt - Second(dt)

\* A rounding whose threshold is one minute early: (minute + 8) // 15.
RoundToQuarterHourAt8(dt) ==
    LET round_minutes == ((Minute(dt) + 8) \div 15) * 15
    IN  dt + TimedeltaMinutes(round_minutes - Minute(dt))

\* A rounding that adds round_minutes without subtracting the minute.
RoundToQuarterHourNoSubtract(dt) ==
    LET round_minutes == ((Minute(dt) + 7) \div 15) * 15
    IN  dt + TimedeltaMinutes(round_minutes)

\* A rounding that subtracts the shift to the quarter hour instead of adding it.
RoundToQuarterHourNegated(dt) ==
    LET round_minutes == ((Minute(dt) + 7) \div 15) * 15
    IN  dt - TimedeltaMinutes(round_minutes - Minute(dt))

\* TimeEntry._round_to_quarter_hour
RoundToQuarterHour(dt) ==
    LET round_minutes == ((Minute(dt) + 7) \div 15) * 15
    IN  dt + TimedeltaMinutes(round_minutes - Minute(dt))

\* self._round_to_quarter_hour(self._truncate_seconds(parse(s)))
Normalize(s) == RoundToQuarterHour(TruncateSeconds(Parse(s)))

\* (self.stop - self.start).seconds
Duration(start, stop) == TimedeltaSeconds(stop - start)

\* TimeEntry.__init__: start, stop and duration are attributes only when set;
\* the other arguments are stored as given.
TimeEntry(start, stop, pid, wid, id, description) ==
    LET self0 == [description |-> description, pid |-> pid, wid |-> wid,
                  id |-> id]
        self1 == IF start # None
                 THEN self0 @@ ("start" :> Normalize(start[1]))
                 ELSE self0
        self2 == IF stop # None
                 THEN self1 @@ ("stop" :> Normalize(stop[1]))
                 ELSE self1
    IN  IF start # None /\ stop # None
        THEN self2 @@ ("duration" :> Duration(self2.start, self2.stop))
        ELSE self2

-----------------------------------------------------------------------------
(* Normalization of one timestamp *)

SecondSample == {0, 1, 30, 37, 59}

RawTimes ==
    [day : 0..MaxDay, hour : 0..23, minute : 0..59, second : SecondSample]

InitRound ==
    /\ rIn \in RawTimes
    /\ rOut = None
    /\ rAgain = None

\* start = _round_to_quarter_hour(_truncate_seconds(parse(start)))
NormalizeStep ==
    /\ rOut = None
    /\ rOut' = Some(Normalize(rIn))
    /\ UNCHANGED <<rIn, rAgain>>

\* _round_to_quarter_hour applied to a normalized datetime
ReRoundStep ==
    /\ rOut # None
    /\ rAgain = None
    /\ rAgain' = Some(RoundToQuarterHour(rOut[1]))
    /\ UNCHANGED <<rIn, rOut>>

-----------------------------------------------------------------------------
(* Construction of one TimeEntry *)

HourSample == {0, 9, 23}

MinuteSample == {0, 7, 8, 22, 23, 37, 38, 52, 53, 59}

ArgTimes ==
    [day : 0..MaxDay, hour : HourSample, minute : MinuteSample,
     second : {0, 37}]

OptionalArgTimes == {None} \cup {Some(s) : s \in ArgTimes}

InitCtor ==
    /\ argStart \in OptionalArgTimes
    /\ argStop \in OptionalArgTimes
    /\ built = None

\* TimeEntry(start=..., stop=..., ...)
Construct ==
    /\ built = None
    /\ built' = Some(TimeEntry(argStart, argStop, None, None, None, None))
    /\ UNCHANGED <<argStart, argStop>>

-----------------------------------------------------------------------------
(* dict: the (key, value) pairs in insertion order *)

DictHas(d, k) == \E i \in 1..Len(d) : d[i][1] = k

\* d.get(k, default)
DictGet(d, k, default) ==
    IF DictHas(d, k)
    THEN d[CHOOSE i \in 1..Len(d) : d[i][1] = k][2]
    ELSE default

\* d[k] = v: a present key keeps its place, a new key is appended
DictSet(d, k, v) ==
    IF DictHas(d, k)
    THEN [i \in 1..Len(d) |-> IF d[i][1] = k THEN <<k, v>> ELSE d[i]]
    ELSE Append(d, <<k, v>>)

DictKeys(d) == {d[i][1] : i \in 1..Len(d)}

-----------------------------------------------------------------------------
(* get_time_per_day *)

\* The loop body that assigns the entry's duration instead of adding it.
RECURSIVE TimePerDayLoopOverwrite(_, _, _)
TimePerDayLoopOverwrite(es, i, time_per_day) ==
    IF i > Len(es) THEN Return(time_per_day)
    ELSE IF "start" \notin DOMAIN es[i] THEN Raise("AttributeError")
    ELSE IF "duration" \notin DOMAIN es[i] THEN Raise("AttributeError")
    ELSE TimePerDayLoopOverwrite(es, i + 1,
             DictSet(time_per_day, DateIsoFormat(Date(es[i].start)),
                     es[i].duration))

\* for entry in entries: day_key = ...; time_per_day[day_key] = ... from
\* entry i on.  Reading an attribute the entry does not have raises
\* AttributeError.
RECURSIVE TimePerDayLoop(_, _, _)
TimePerDayLoop(es, i, time_per_day) ==
    IF i > Len(es) THEN Return(time_per_day)
    ELSE IF "start" \notin DOMAIN es[i] THEN Raise("AttributeError")
    ELSE LET day_key == DateIsoFormat(Date(es[i].start))
         IN  IF "duration" \notin DOMAIN es[i] THEN Raise("AttributeError")
             ELSE TimePerDayLoop(es, i + 1,
                      DictSet(time_per_day, day_key,
                              DictGet(time_per_day, day_key, 0)
                                  + es[i].duration))

\* An aggregation that assigns each duration instead of adding it.
GetTimePerDayOverwrite(es) == TimePerDayLoopOverwrite(es, 1, <<>>)

\* get_time_per_day(entries)
GetTimePerDay(es) == TimePerDayLoop(es, 1, <<>>)

-----------------------------------------------------------------------------
(* get_last_time_for_day *)

\* date.min: a date, not a datetime
DateMin == [cls |-> "date", v |-> 1]

DateTime(dt) == [cls |-> "datetime", v |-> dt]

\* sorted(list, key=lambda x: x.start): a stable insertion sort
RECURSIVE SortedByStart(_)
InsertByStart(e, sorted) ==
    LET before == {i \in 1..Len(sorted) : sorted[i].start <= e.start}
        n == Cardinality(before)
    IN  SubSeq(sorted, 1, n) \o <<e>> \o SubSeq(sorted, n + 1, Len(sorted))

SortedByStart(es) ==
    IF es = <<>> THEN <<>>
    ELSE InsertByStart(es[Len(es)], SortedByStart(SubSeq(es, 1, Len(es) - 1)))

\* [e for e in entries if e.start.date() == target_date]
OnDate(es, target_date) ==
    SelectSeq(es, LAMBDA e : Date(e.start) = target_date)

\* The loop of get_last_time_for_day from entry i of the sorted list on.
\* entry.stop > latest_time compares a datetime with latest_time: with a
\* date that is not a datetime, the comparison raises TypeError.
RECURSIVE LastTimeLoop(_, _, _)
LastTimeLoop(es, i, latest_time) ==
    IF i > Len(es)
    THEN Return(IF latest_time # DateMin THEN Some(latest_time.v) ELSE None)
    ELSE IF "stop" \notin DOMAIN es[i]
         THEN LastTimeLoop(es, i + 1, latest_time)
         ELSE IF latest_time.cls # "datetime" THEN Raise("TypeError")
         ELSE IF es[i].stop > latest_time.v
              THEN LastTimeLoop(es, i + 1, DateTime(es[i].stop))
              ELSE LastTimeLoop(es, i + 1, latest_time)

\* get_last_time_for_day(date_string, entries)
GetLastTimeForDay(date_string, es) ==
    LET target_date == ParseDate(date_string)
    IN  IF \E i \in 1..Len(es) : "start" \notin DOMAIN es[i]
        THEN Raise("AttributeError")
        ELSE LastTimeLoop(SortedByStart(OnDate(es, target_date)), 1, DateMin)

-----------------------------------------------------------------------------
(* fill_with_admin_time *)

\* The names bound at module level: the imports, the classes, the functions.
ModuleGlobals ==
    {"argparse", "base64", "datetime", "json", "os", "sys", "date",
     "timedelta", "pytz", "requests", "parse", "logger",
     "TimeEntryEncoder", "TimeEntry", "get_headers", "get_time_entries",
     "get_last_time_for_day", "get_time_per_day", "fill_with_admin_time",
     "update_entries", "main"}

eight_hours_in_seconds == 8 * 60 * 60

\* The body of the loop for one (date_key, duration) item whose duration is
\* short: the entry to append, or the exception raised.  The arguments of
\* TimeEntry(...) are evaluated in order: start, then stop.
AdminEntry(date_key, duration, es) ==
    LET additional_time_needed == eight_hours_in_seconds - duration
    IN  IF "_get_last_time_for_day" \notin ModuleGlobals
        THEN Raise("NameError")
        ELSE LET last == GetLastTimeForDay(date_key, es)
             IN  IF last.exc # "none" THEN last
                 ELSE IF last.val = None THEN Raise("AttributeError")
                 ELSE IF "_round_to_quarter_hour" \notin ModuleGlobals
                      THEN Raise("NameError")
                 ELSE Return(TimeEntry(
                          Some(IsoFormat(last.val[1])),
                          Some(IsoFormat(RoundToQuarterHour(
                              last.val[1] + additional_time_needed))),
                          Some(12780480), Some(876389), None, Some("Admin")))

\* for date_key, duration in time_per_day.items(): ... from item i on
RECURSIVE AdminLoop(_, _, _, _)
AdminLoop(time_per_day, i, es, admin_entries) ==
    IF i > Len(time_per_day) THEN Return(admin_entries)
    ELSE IF time_per_day[i][2] < eight_hours_in_seconds
         THEN LET entry == AdminEntry(time_per_day[i][1], time_per_day[i][2],
                                      es)
              IN  IF entry.exc # "none" THEN entry
                  ELSE AdminLoop(time_per_day, i + 1, es,
                                 Append(admin_entries, entry.val))
         ELSE AdminLoop(time_per_day, i + 1, es, admin_entries)

\* fill_with_admin_time(entries): its first statement calls
\* _get_time_per_day, a name the module does not bind.
FillWithAdminTime(es) ==
    IF "_get_time_per_day" \notin ModuleGlobals THEN Raise("NameError")
    ELSE LET time_per_day == GetTimePerDay(es)
         IN  IF time_per_day.exc # "none" THEN time_per_day
             ELSE AdminLoop(time_per_day.val, 1, es, <<>>)

-----------------------------------------------------------------------------
(* get_time_entries and the aggregation calls on its result *)

\* The timestamps of the fetched records: five on day 0, which normalize to
\* 09:00, 10:00, 10:30, 17:15 and 00:00 of day 1, and one on day 1.
FetchStamps ==
    { [day |-> 0, hour |-> 9, minute |-> 0, second |-> 37],
      [day |-> 0, hour |-> 10, minute |-> 7, second |-> 0],
      [day |-> 0, hour |-> 10, minute |-> 23, second |-> 0],
      [day |-> 0, hour |-> 17, minute |-> 8, second |-> 0],
      [day |-> 0, hour |-> 23, minute |-> 53, second |-> 0],
      [day |-> 1, hour |-> 9, minute |-> 0, second |-> 37] }

\* A record of the service: a start, and a stop not before it unless the
\* entry is still running.
RawRecords ==
    {[start |-> Some(a), stop |-> None] : a \in FetchStamps}
    \cup {[start |-> Some(p[1]), stop |-> Some(p[2])] :
            p \in {q \in FetchStamps \X FetchStamps :
                      Parse(q[1]) <= Parse(q[2])}}

RawLists == UNION {[1..n -> RawRecords] : n \in 0..MaxEntries}

\* The day keys a caller asks about: the days of the records and the next.
DayKeys == {DateIsoFormat(d) : d \in 0..2}

InitAgg ==
    /\ entries = <<>>
    /\ call = [op |-> "none"]

\* get_headers(): sys.exit(1) without TOGGL_API_KEY
GetHeaders == IF apiKey THEN Return("Basic") ELSE Raise("SystemExit")

\* get_time_entries(): [] on a response other than 200, else a TimeEntry per
\* record, with the record's position as its id
GetTimeEntries ==
    /\ call.op = "none"
    /\ \E status \in {200, 500}, records \in RawLists :
        IF GetHeaders.exc # "none"
        THEN /\ call' = [op |-> "get_time_entries", result |-> GetHeaders]
             /\ UNCHANGED entries
        ELSE /\ entries' =
                   IF status # 200 THEN <<>>
                   ELSE [i \in 1..Len(records) |->
                            TimeEntry(records[i].start, records[i].stop,
                                      Some(1), Some(1), Some(i),
                                      Some("work"))]
             /\ call' = [op |-> "get_time_entries", result |-> Return(status)]

Fetched == call.op # "none" /\ call.result.exc # "SystemExit"

GetTimePerDayCall ==
    /\ Fetched
    /\ call' = [op |-> "get_time_per_day", result |-> GetTimePerDay(entries)]
    /\ UNCHANGED entries

GetLastTimeForDayCall ==
    /\ Fetched
    /\ \E date_string \in DayKeys :
        call' = [op |-> "get_last_time_for_day", arg |-> date_string,
                 result |-> GetLastTimeForDay(date_string, entries)]
    /\ UNCHANGED entries

FillWithAdminTimeCall ==
    /\ Fetched
    /\ call' = [op |-> "fill_with_admin_time",
                result |-> FillWithAdminTime(entries)]
    /\ UNCHANGED entries

-----------------------------------------------------------------------------
(* update_entries *)

\* json.dumps(..., cls=TimeEntryEncoder): the entry's __dict__, each
\* datetime as its isoformat()
JsonDumps(e) ==
    [k \in DOMAIN e |-> IF k \in {"start", "stop"} THEN IsoFormat(e[k])
                        ELSE e[k]]

\* requests.put(url, headers=headers, data=json_data) for an entry
PutRequest(e) == [url |-> e.id, data |-> JsonDumps(e)]

\* The records of the entries to update: running, closed and rounded over
\* midnight.
UpdateRecords ==
    { [start |-> Some([day |-> 0, hour |-> 9, minute |-> 0, second |-> 37]),
       stop |-> None],
      [start |-> Some([day |-> 0, hour |-> 9, minute |-> 0, second |-> 37]),
       stop |-> Some([day |-> 0, hour |-> 17, minute |-> 8, second |-> 0])],
      [start |-> Some([day |-> 0, hour |-> 23, minute |-> 53, second |-> 0]),
       stop |-> Some([day |-> 1, hour |-> 9, minute |-> 0, second |-> 37])] }

UpdateLists == UNION {[1..n -> UpdateRecords] : n \in 0..MaxEntries}

InitUpdate ==
    /\ apiKey \in BOOLEAN
    /\ \E records \in UpdateLists :
        entries = [i \in 1..Len(records) |->
                      TimeEntry(records[i].start, records[i].stop,
                                Some(1), Some(1), Some(i), Some("work"))]
    /\ call = [op |-> "none"]
    /\ pc = "idle"
    /\ idx = 0
    /\ sent = <<>>
    /\ logged = <<>>

\* headers = get_headers(): the process exits when the key is not set
UpdateEntriesCall ==
    /\ pc = "idle"
    /\ IF GetHeaders.exc # "none"
       THEN pc' = "exited" /\ idx' = idx
       ELSE pc' = "loop" /\ idx' = 1
    /\ UNCHANGED <<apiKey, sent, logged, entries, call>>

\* A loop that leaves at the first response other than 200.
AfterResponseBreak(status) ==
    [idx |-> IF status # 200 THEN Len(entries) + 1 ELSE idx + 1,
     logged |-> IF status # 200 THEN Append(logged, idx) ELSE logged]

\* if response.status_code != 200: logger.error(...); continue
\* and the loop goes to the next entry either way
AfterResponse(status) ==
    [idx |-> idx + 1,
     logged |-> IF status # 200 THEN Append(logged, idx) ELSE logged]

\* One iteration of the loop whose PUT returns a response.
UpdatePutResponds ==
    /\ pc = "loop"
    /\ idx <= Len(entries)
    /\ \E status \in {200, 404, 500} :
        /\ sent' = Append(sent, PutRequest(entries[idx])
                                @@ ("status" :> Some(status)))
        /\ idx' = AfterResponse(status).idx
        /\ logged' = AfterResponse(status).logged
    /\ UNCHANGED <<apiKey, pc, entries, call>>

\* One iteration of the loop whose PUT raises (no connection, a timeout):
\* update_entries catches nothing, and the exception leaves it.
UpdatePutRaises ==
    /\ pc = "loop"
    /\ idx <= Len(entries)
    /\ sent' = Append(sent, PutRequest(entries[idx]) @@ ("status" :> None))
    /\ pc' = "raised"
    /\ UNCHANGED <<apiKey, idx, logged, entries, call>>

\* The for loop is exhausted and update_entries returns.
UpdateEntriesReturn ==
    /\ pc = "loop"
    /\ idx > Len(entries)
    /\ pc' = "done"
    /\ UNCHANGED <<apiKey, idx, sent, logged, entries, call>>

-----------------------------------------------------------------------------
(* The variables a specification does not use stay at these values. *)

IdleRound == rIn = [day |-> 0, hour |-> 0, minute |-> 0, second |-> 0]
             /\ rOut = None /\ rAgain = None

IdleCtor == argStart = None /\ argStop = None /\ built = None

IdleAgg == entries = <<>> /\ call = [op |-> "none"]

IdleUpd == apiKey = TRUE /\ pc = "idle" /\ idx = 0 /\ sent = <<>>
           /\ logged = <<>>

-----------------------------------------------------------------------------
(* SpecRound: the normalization of every raw timestamp *)

NextRound ==
    \/ NormalizeStep /\ UNCHANGED <<ctorVars, aggVars, updVars>>
    \/ ReRoundStep /\ UNCHANGED <<ctorVars, aggVars, updVars>>

InitRoundSpec == InitRound /\ IdleCtor /\ IdleAgg /\ IdleUpd

SpecRound == InitRoundSpec /\ [][NextRound]_vars

(* Spec: the fetch and the aggregation calls *)

Next ==
    \/ GetTimeEntries /\ UNCHANGED <<roundVars, ctorVars, updVars>>
    \/ GetTimePerDayCall /\ UNCHANGED <<roundVars, ctorVars, updVars>>
    \/ GetLastTimeForDayCall /\ UNCHANGED <<roundVars, ctorVars, updVars>>
    \/ FillWithAdminTimeCall /\ UNCHANGED <<roundVars, ctorVars, updVars>>

Init ==
    /\ InitAgg /\ IdleRound /\ IdleCtor
    /\ apiKey \in BOOLEAN /\ pc = "idle" /\ idx = 0 /\ sent = <<>>
    /\ logged = <<>>

Spec == Init /\ [][Next]_vars

(* SpecEntry: the construction of a TimeEntry from every pair of arguments *)

NextEntry == Construct /\ UNCHANGED <<roundVars, aggVars, updVars>>

InitEntrySpec == InitCtor /\ IdleRound /\ IdleAgg /\ IdleUpd

SpecEntry == InitEntrySpec /\ [][NextEntry]_vars

(* SpecUpdate: update_entries on every list of entries; the program is
   sequential and keeps running, so a step that can be taken is taken. *)

NextUpdate ==
    \/ UpdateEntriesCall /\ UNCHANGED <<roundVars, ctorVars>>
    \/ UpdatePutResponds /\ UNCHANGED <<roundVars, ctorVars>>
    \/ UpdatePutRaises /\ UNCHANGED <<roundVars, ctorVars>>
    \/ UpdateEntriesReturn /\ UNCHANGED <<roundVars, ctorVars>>

InitUpdateSpec == InitUpdate /\ IdleRound /\ IdleCtor

SpecUpdate == InitUpdateSpec /\ [][NextUpdate]_vars /\ WF_vars(NextUpdate)

-----------------------------------------------------------------------------
(* Claims on normalization *)

\* The quarter hour the boundary table gives for a timestamp string, as a
\* string: the minute to :00, :15, :30, :45 of the hour or :00 of the next
\* hour, which is hour 0 of the next day after hour 23.
TableQuarter(s) ==
    LET m == s.minute
    IN  IF m <= 7 THEN [s EXCEPT !.minute = 0, !.second = 0]
        ELSE IF m <= 22 THEN [s EXCEPT !.minute = 15, !.second = 0]
        ELSE IF m <= 37 THEN [s EXCEPT !.minute = 30, !.second = 0]
        ELSE IF m <= 52 THEN [s EXCEPT !.minute = 45, !.second = 0]
        ELSE IF s.hour < 23
             THEN [s EXCEPT !.hour = s.hour + 1, !.minute = 0, !.second = 0]
             ELSE [day |-> s.day + 1, hour |-> 0, minute |-> 0, second |-> 0]

\* C1: normalization returns the truncated timestamp shifted by
\* floor((m+7)/15)*15 - m minutes, m the minute of the hour: minutes 0..7
\* give :00, 8..22 :15, 23..37 :30, 38..52 :45 of the same hour and 53..59
\* :00 of the next hour, of the next day when the hour is 23.
C1_RoundShiftTable ==
    rOut # None =>
        LET m == rIn.minute
            truncated == Parse([rIn EXCEPT !.second = 0])
        IN  /\ rOut[1] = truncated + (((m + 7) \div 15) * 15 - m) * 60
            /\ IsoFormat(rOut[1]) = TableQuarter(rIn)

\* A timestamp at 23:53:37 has been normalized to 00:00:00 of the next day.
C1_Witness ==
    /\ rOut # None
    /\ rIn.hour = 23 /\ rIn.minute = 53 /\ rIn.second = 37
    /\ IsoFormat(rOut[1]) =
           [day |-> rIn.day + 1, hour |-> 0, minute |-> 0, second |-> 0]

\* C8: rounding is idempotent: _round_to_quarter_hour of a normalized
\* timestamp is that same timestamp.
C8_RoundIdempotent == rAgain # None => rAgain = rOut

\* A timestamp at minute 8, which normalization moved, has been rounded
\* again and has not moved.
C8_Witness ==
    /\ rAgain # None
    /\ rIn.minute = 8
    /\ rOut[1] # Parse(rIn)
    /\ rAgain = rOut

-----------------------------------------------------------------------------
(* Claims on the constructor *)

\* C2: a TimeEntry constructed with a start and a stop has a duration equal
\* to normalized stop - normalized start as a total number of seconds, for
\* every pair of boundaries; one constructed without a stop has no duration.
C2_DurationIsTotalSeconds ==
    built # None =>
        LET e == built[1]
        IN  /\ (argStart # None /\ argStop # None) =>
                /\ "duration" \in DOMAIN e
                /\ e.duration = Normalize(argStop[1]) - Normalize(argStart[1])
            /\ argStop = None => "duration" \notin DOMAIN e

\* C9: when the raw start is not after the raw stop, the normalized start is
\* not after the normalized stop and the duration is a non-negative integer.
C9_OrderPreserved ==
    (built # None /\ argStart # None /\ argStop # None
        /\ Parse(argStart[1]) <= Parse(argStop[1])) =>
        /\ built[1].start <= built[1].stop
        /\ built[1].duration \in Nat

\* An entry from 8 to 22 minutes past the same hour has been constructed:
\* its start rounded up and its stop down, to the same quarter hour.
C9_Witness ==
    /\ built # None /\ argStart # None /\ argStop # None
    /\ argStart[1].minute = 8 /\ argStop[1].minute = 22
    /\ Parse(argStart[1]) < Parse(argStop[1])
    /\ built[1].start = built[1].stop
    /\ built[1].duration = 0

-----------------------------------------------------------------------------
(* Claims on the aggregation *)

HasDuration(e) == "duration" \in DOMAIN e

HasStop(e) == "stop" \in DOMAIN e

\* The sum of the durations of the entries of es whose start falls on day d.
RECURSIVE SumOn(_, _)
SumOn(es, d) ==
    IF es = <<>> THEN 0
    ELSE (IF Date(Head(es).start) = d THEN Head(es).duration ELSE 0)
         + SumOn(Tail(es), d)

\* The stops of the entries of es that have one and whose start falls on d.
StopsOn(es, d) ==
    {es[i].stop : i \in {j \in 1..Len(es) : HasStop(es[j])
                                            /\ Date(es[j].start) = d}}

Max(S) == CHOOSE x \in S : \A y \in S : y <= x

\* C3: an entry with a start and no stop is excluded from the sums:
\* get_time_per_day completes, and returns what it returns for the
\* collection without the running entries.
C3_RunningEntriesExcluded ==
    call.op = "get_time_per_day" =>
        /\ call.result.exc = "none"
        /\ call.result = GetTimePerDay(SelectSeq(entries, HasStop))

\* C4: for entries that all have a duration, get_time_per_day returns a
\* mapping with exactly one key per day on which some entry's normalized
\* start falls, each with the sum of the durations of the entries whose
\* normalized start falls on that day.
C4_TimePerDaySums ==
    (call.op = "get_time_per_day"
        /\ \A i \in 1..Len(entries) : HasDuration(entries[i])) =>
        /\ call.result.exc = "none"
        /\ LET tpd == call.result.val
           IN  /\ \A i, j \in 1..Len(tpd) : tpd[i][1] = tpd[j][1] => i = j
               /\ DictKeys(tpd) =
                      {DateIsoFormat(Date(entries[i].start)) :
                          i \in 1..Len(entries)}
               /\ \A i \in 1..Len(tpd) :
                      tpd[i][2] = SumOn(entries, ParseDate(tpd[i][1]))

\* Entries of 3600 and 1800 seconds that start on day 0 have been
\* aggregated to the single total 5400 for day 0.
C4_Witness ==
    /\ call.op = "get_time_per_day"
    /\ Len(entries) = 2
    /\ HasDuration(entries[1]) /\ entries[1].duration = 3600
    /\ HasDuration(entries[2]) /\ entries[2].duration = 1800
    /\ call.result = Return(<< <<DateIsoFormat(0), 5400>> >>)

\* C5: get_last_time_for_day returns the maximum stop among the entries
\* whose start falls on the day and which have a stop, and None exactly
\* when there is no such entry.
C5_LastTimeIsMaxStop ==
    call.op = "get_last_time_for_day" =>
        LET stops == StopsOn(entries, ParseDate(call.arg))
        IN  call.result =
                Return(IF stops = {} THEN None ELSE Some(Max(stops)))

\* C6: for every day whose total is less than 28800 seconds,
\* fill_with_admin_time returns exactly one filler, with description
\* "Admin", the day's latest stop as its start and the normalization of
\* (latest stop + (28800 - total) seconds) as its stop; for a day whose
\* total is 28800 or more it returns none.  The fillers are in the order
\* of the days of the totals.
C6_OneFillerPerShortDay ==
    (call.op = "fill_with_admin_time"
        /\ GetTimePerDay(entries).exc = "none") =>
        LET tpd == GetTimePerDay(entries).val
            short == SelectSeq(tpd, LAMBDA item : item[2] < 28800)
        IN  /\ Len(short) > 0 => call.result.exc = "none"
            /\ call.result.exc = "none" =>
                /\ Len(call.result.val) = Len(short)
                /\ \A k \in 1..Len(short) :
                    LET latest ==
                            Max(StopsOn(entries, ParseDate(short[k][1])))
                        filler == call.result.val[k]
                    IN  /\ filler.description = Some("Admin")
                        /\ filler.start = latest
                        /\ filler.stop =
                               Normalize(IsoFormat(
                                   latest + (28800 - short[k][2])))

\* No reachable list of entries has a day with a total and no latest stop:
\* each entry that adds to a day's total has a stop.
NoShortDayWithoutAnchor ==
    (Fetched /\ GetTimePerDay(entries).exc = "none") =>
        LET tpd == GetTimePerDay(entries).val
        IN  \A i \in 1..Len(tpd) :
                StopsOn(entries, ParseDate(tpd[i][1])) # {}

-----------------------------------------------------------------------------
(* Claims on update_entries *)

UpdateEnded == pc \in {"done", "exited", "raised"}

\* The requests made so far are those of the first entries, one each, in
\* input order.
SentInOrder ==
    /\ Len(sent) <= Len(entries)
    /\ \A i \in 1..Len(sent) :
           /\ sent[i].url = entries[i].id
           /\ sent[i].data = JsonDumps(entries[i])

\* The indices logged are those of the responses other than 200, in order.
LoggedFailures ==
    logged = SelectSeq([i \in 1..Len(sent) |-> i],
                       LAMBDA i : sent[i].status \notin {None, Some(200)})

=============================================================================
